---------------------------- MODULE Spec2Model ----------------------------
(***************************************************************************)
(* Terraform provider for the virtual traffic manager: the lifecycle       *)
(* handlers (Create/Read/Update/Delete/Exists) of one resource or data     *)
(* source instance, its local ResourceData `d`, and the remote appliance   *)
(* object it is bound to.                                                  *)
(*                                                                         *)
(* One behaviour follows one instance: `kind` is its resource type, `d`    *)
(* its ResourceData (id and attributes), `remote` the appliance object of  *)
(* that name, `last` the outcome of the handler that ran last.             *)
(*                                                                         *)
(* Every table row is abstracted to a key column (`name`) and a payload    *)
(* column (`value`); all scalar attributes of an object are abstracted to  *)
(* one attribute `scalars`.                                                *)
(***************************************************************************)
EXTENDS Integers, Sequences, FiniteSets, TLC

VARIABLES kind, d, remote, last

vars == <<kind, d, remote, last>>

(***************************************************************************)
(* Bounds                                                                  *)
(***************************************************************************)
\* longest table (remote rows, JSON rows) considered
MaxRows == 2
\* longest list of traffic manager names returned by the appliance
MaxList == 2

(***************************************************************************)
(* Value universe                                                          *)
(***************************************************************************)
\* a nil pointer field of a remote row / a key missing from a Terraform map
Nil == "<nil>"

BoundedSeq(S, n) == UNION {[1..k -> S] : k \in 0..n}

\* the entries a user can write in a structured table attribute: every
\* field is present (the schema fills required fields and defaults)
EntryList ==
  << [name |-> "a", value |-> "x"], [name |-> "b", value |-> "y"] >>

Entries == {EntryList[i] : i \in 1..Len(EntryList)}

\* rows of a remote table: fields are pointers and may be nil
RemoteRows == {[name |-> "a", value |-> "x"], [name |-> "b", value |-> Nil]}

TableValues == BoundedSeq(RemoteRows, MaxRows)

ObjectNames == {"web"}

ScalarValues == {"s0", "s1"}

ListValues == {<< >>, <<"u">>}

(***************************************************************************)
(* Schemas                                                                 *)
(***************************************************************************)
GlbService == "vtm_glb_service"
TrafficManager == "vtm_traffic_manager"
Security == "vtm_security"
EventStatistics == "vtm_events"
ListenIpStatistics == "vtm_listen_ips"
UserCounters64 == "vtm_user_counters_64"
TrafficManagerList == "vtm_traffic_manager_list"

Resources == {GlbService, TrafficManager, Security}

NamedKinds == {GlbService, TrafficManager, EventStatistics, ListenIpStatistics}

Kinds ==
  Resources \cup
    {EventStatistics, ListenIpStatistics, UserCounters64, TrafficManagerList}

\* the table-typed (TypeSet of nested resource) attributes of a resource
Tables(k) ==
  IF k = GlbService THEN {"dnssec_keys", "location_settings"}
  ELSE IF k = TrafficManager
    THEN {"appliance_card", "appliance_sysctl", "trafficip", "appliance_hosts",
          "appliance_if", "appliance_ip", "appliance_routes"}
  ELSE {}

\* the "<table>_json" string attributes the schema declares
JsonAttributes(k) ==
  IF k = GlbService THEN {"dnssec_keys_json", "location_settings_json"}
  ELSE IF k = TrafficManager
    THEN {"appliance_card_json", "appliance_sysctl_json", "trafficip_json"}
  ELSE {}

\* the list-of-strings attributes of a resource
Lists(k) ==
  IF k = GlbService
    THEN {"chained_location_order", "domains", "last_resort_response",
          "location_draining", "rules"}
  ELSE IF k = TrafficManager
    THEN {"appliance_name_servers", "appliance_ntpservers",
          "appliance_search_domains", "appliance_vlans",
          "ec2_trafficips_public_enis", "fault_tolerance_lss_dedicated_ips",
          "fault_tolerance_ospfv2_neighbor_addrs", "rest_api_bind_ips",
          "snmp_allow"}
  ELSE IF k = Security
    THEN {"access", "ssh_intrusion_blacklist", "ssh_intrusion_whitelist"}
  ELSE {}

\* the key Update and Read use for the JSON shadow of table t
JsonKey(t) == t \o "_json"

\* the value Update sends and stores for a list attribute that is not set
ListDefault(l) ==
  IF l = "appliance_ntpservers"
    THEN <<"0.zeus.pool.ntp.org", "1.zeus.pool.ntp.org",
           "2.zeus.pool.ntp.org", "3.zeus.pool.ntp.org">>
  ELSE IF l = "fault_tolerance_ospfv2_neighbor_addrs" THEN <<"%gateway%">>
  ELSE IF l = "rest_api_bind_ips" THEN <<"*">>
  ELSE IF l = "snmp_allow" THEN <<"all">>
  ELSE << >>


(***************************************************************************)
(* JSON texts.  A string attribute holding JSON is a text that is empty,   *)
(* malformed, a JSON value that is not an array, or an array of rows.      *)
(* The texts a user writes hold complete rows.                             *)
(***************************************************************************)
EmptyString == [kind |-> "empty", elems |-> << >>]

JsonTexts ==
  {EmptyString, [kind |-> "syntax", elems |-> << >>],
   [kind |-> "object", elems |-> << >>]}
    \cup {[kind |-> "array", elems |-> s] : s \in BoundedSeq(Entries, MaxRows)}

\* json.Unmarshal(text, target): an array of rows replaces the target; any
\* other text leaves the target as it was and reports an error
Unmarshal(text, target) ==
  IF text.kind = "array" THEN [value |-> text.elems, err |-> FALSE]
  ELSE [value |-> target, err |-> TRUE]

\* json.Marshal(rows)
Marshal(rows) == [kind |-> "array", elems |-> rows]

(***************************************************************************)
(* schema.ResourceData                                                     *)
(***************************************************************************)
\* d.Get(key)
Get(dd, key) == dd.attrs[key]

\* d.Set(key, v): a key the schema does not declare is an error, which
\* every caller drops
Set(dd, key, v) ==
  IF key \in DOMAIN dd.attrs THEN [dd EXCEPT !.attrs[key] = v] ELSE dd

\* d.SetId(id)
SetId(dd, id) == [dd EXCEPT !.id = id]

\* ok of d.GetOk(key) for a string attribute holding JSON
GetOkJson(dd, key) ==
  /\ key \in DOMAIN dd.attrs
  /\ dd.attrs[key].kind # "empty"

\* ok of d.GetOk(key) for a TypeSet attribute
GetOkSet(dd, key) ==
  /\ key \in DOMAIN dd.attrs
  /\ dd.attrs[key] # {}

\* ok of d.GetOk(key) for a TypeList or plain string attribute
GetOkSeq(dd, key) ==
  /\ key \in DOMAIN dd.attrs
  /\ dd.attrs[key] # << >>

\* hash code of a set entry: schema.Set.List() returns entries in this order
HashCode(e) ==
  IF e.name = "a" THEN (IF e.value = "x" THEN 1 ELSE 2)
  ELSE (IF e.value = "y" THEN 3 ELSE 4)

RECURSIVE SetList(_)
\* (*schema.Set).List()
SetList(S) ==
  IF S = {} THEN << >>
  ELSE LET e == CHOOSE x \in S : \A y \in S : HashCode(x) <= HashCode(y)
       IN <<e>> \o SetList(S \ {e})

(***************************************************************************)
(* Table rows                                                              *)
(***************************************************************************)
\* one structured entry to one remote row: every field copied
expandRowDropped(e) == [name |-> e.name, value |-> Nil]

expandRow(e) == [name |-> e.name, value |-> e.value]

\* the loop appending one remote row per entry
expandTable(entries) == [i \in 1..Len(entries) |-> expandRow(entries[i])]

\* one remote row to a Terraform map: only non-nil fields are copied
flattenRow(row) == [name |-> row.name, value |-> row.value]

\* a map stored in a TypeSet reads back with the zero value for a missing key
SchemaEntry(m) ==
  [name |-> IF m.name = Nil THEN "" ELSE m.name,
   value |-> IF m.value = Nil THEN "" ELSE m.value]

flattenTable(rows) == [i \in 1..Len(rows) |-> flattenRow(rows[i])]

Range(s) == {s[i] : i \in 1..Len(s)}

(***************************************************************************)
(* Shadow-field reconciliation, as repeated for every table attribute      *)
(***************************************************************************)
resolveTableListFirst(dd, t) ==
  IF GetOkSet(dd, t) THEN expandTable(SetList(Get(dd, t)))
  ELSE IF GetOkJson(dd, JsonKey(t))
    THEN Unmarshal(Get(dd, JsonKey(t)), << >>).value
  ELSE << >>

\* the rows placed in the object: the table starts empty, then JSON if
\* GetOk finds it, else the structured list if GetOk finds it
resolveTable(dd, t) ==
  IF GetOkJson(dd, JsonKey(t))
    THEN Unmarshal(Get(dd, JsonKey(t)), << >>).value
  ELSE IF GetOkSet(dd, t) THEN expandTable(SetList(Get(dd, t)))
  ELSE << >>

writeBackTableClearsList(dd, t) ==
  IF GetOkJson(dd, JsonKey(t)) THEN Get(dd, t) ELSE {}

\* the d.Set of the same block: nothing in the JSON branch, the list itself
\* in the list branch, an empty list otherwise
writeBackTable(dd, t) ==
  IF GetOkJson(dd, JsonKey(t)) THEN Get(dd, t)
  ELSE IF GetOkSet(dd, t) THEN Get(dd, t)
  ELSE {}

resolveListNoDefault(dd, l) ==
  IF GetOkSeq(dd, l) THEN Get(dd, l) ELSE << >>

\* a list attribute: the list if GetOk finds it, else the fixed default
resolveList(dd, l) ==
  IF GetOkSeq(dd, l) THEN Get(dd, l) ELSE ListDefault(l)

(***************************************************************************)
(* Remote objects and responses                                            *)
(***************************************************************************)
NotFound == [exists |-> FALSE]

NoObject == [exists |-> FALSE]

\* the three outcomes of a remote get
GetResponse(rem, fault) ==
  IF fault THEN [err |-> "other", object |-> NoObject]
  ELSE IF ~rem.exists THEN [err |-> "resource.not_found", object |-> NoObject]
  ELSE [err |-> "none", object |-> rem]

\* the object the appliance holds under a name: the one object considered
\* has a name of ObjectNames, any other name (the empty one of a
\* ResourceData that was only imported) names nothing
Lookup(rem, name) == IF name \in ObjectNames THEN rem ELSE NotFound

\* vtm.New<Object>(name): an object with no rows and no list members yet
NewObject(k) ==
  [exists |-> TRUE,
   tables |-> [t \in Tables(k) |-> << >>],
   lists |-> [l \in Lists(k) |-> << >>],
   scalars |-> "s0"]

buildObjectKeepingRows(k, object, dd) ==
  [object EXCEPT
     !.tables = [t \in Tables(k) |->
                   IF GetOkJson(dd, JsonKey(t)) \/ GetOkSet(dd, t)
                     THEN resolveTable(dd, t)
                   ELSE object.tables[t]],
     !.lists = [l \in Lists(k) |-> resolveList(dd, l)],
     !.scalars = Get(dd, "scalars")]

\* the setters of Create/Update applied to `object`: every scalar, list and
\* table field is assigned from the configuration
buildObject(k, object, dd) ==
  [object EXCEPT
     !.tables = [t \in Tables(k) |-> resolveTable(dd, t)],
     !.lists = [l \in Lists(k) |-> resolveList(dd, l)],
     !.scalars = Get(dd, "scalars")]

\* the attributes after the d.Set calls of Create/Update
writeBack(k, dd) ==
  [dd EXCEPT !.attrs =
     [key \in DOMAIN dd.attrs |->
        IF key \in Tables(k) THEN writeBackTable(dd, key)
        ELSE IF key \in Lists(k) THEN resolveList(dd, key)
        ELSE dd.attrs[key]]]

populateKeepsLocalList(k, dd, object) ==
  [dd EXCEPT !.attrs =
     [key \in DOMAIN dd.attrs |->
        IF key \in Tables(k)
          THEN {SchemaEntry(m) : m \in Range(flattenTable(object.tables[key]))}
        ELSE IF key \in JsonAttributes(k)
          THEN LET t == CHOOSE x \in Tables(k) : JsonKey(x) = key
               IN Marshal(flattenTable(object.tables[t]))
        ELSE IF key \in Lists(k)
          THEN IF dd.attrs[key] # << >> THEN dd.attrs[key]
               ELSE object.lists[key]
        ELSE IF key = "scalars" THEN object.scalars
        ELSE dd.attrs[key]]]

\* the attributes after the d.Set calls of Read
populate(k, dd, object) ==
  [dd EXCEPT !.attrs =
     [key \in DOMAIN dd.attrs |->
        IF key \in Tables(k)
          THEN {SchemaEntry(m) : m \in Range(flattenTable(object.tables[key]))}
        ELSE IF key \in JsonAttributes(k)
          THEN LET t == CHOOSE x \in Tables(k) : JsonKey(x) = key
               IN Marshal(flattenTable(object.tables[t]))
        ELSE IF key \in Lists(k) THEN object.lists[key]
        ELSE IF key = "scalars" THEN object.scalars
        ELSE dd.attrs[key]]]


(***************************************************************************)
(* Handlers.  Each takes the ResourceData and the responses of the remote  *)
(* calls it makes, and returns the ResourceData it leaves, whether it      *)
(* returned an error, and the object it handed to Apply (if any).          *)
(***************************************************************************)
readNamedAnyErrorClearsId(k, dd, resp) ==
  IF resp.err # "none"
    THEN [d |-> SetId(dd, ""), err |-> resp.err # "resource.not_found"]
  ELSE [d |-> SetId(populate(k, dd, resp.object), Get(dd, "name")),
        err |-> FALSE]

readNamedWrongId(k, dd, resp) ==
  IF resp.err # "none"
    THEN IF resp.err = "resource.not_found"
           THEN [d |-> SetId(dd, ""), err |-> FALSE]
         ELSE [d |-> dd, err |-> TRUE]
  ELSE [d |-> SetId(populate(k, dd, resp.object), k), err |-> FALSE]

readNamedNotFoundIsError(k, dd, resp) ==
  IF resp.err # "none"
    THEN [d |-> dd, err |-> TRUE]
  ELSE [d |-> SetId(populate(k, dd, resp.object), Get(dd, "name")),
        err |-> FALSE]

\* Read of a named resource: not-found clears the id, any other error is
\* returned, success copies every field and sets the id to the name
readNamed(k, dd, resp) ==
  IF resp.err # "none"
    THEN IF resp.err = "resource.not_found"
           THEN [d |-> SetId(dd, ""), err |-> FALSE]
         ELSE [d |-> dd, err |-> TRUE]
  ELSE [d |-> SetId(populate(k, dd, resp.object), Get(dd, "name")),
        err |-> FALSE]

resourceGlbServiceRead(dd, resp) == readNamed(GlbService, dd, resp)

resourceTrafficManagerRead(dd, resp) == readNamed(TrafficManager, dd, resp)

resourceGlbServiceExistsNotFoundIsError(dd, resp) ==
  IF resp.err # "none" THEN [exists |-> FALSE, err |-> TRUE]
  ELSE [exists |-> TRUE, err |-> FALSE]

resourceGlbServiceExists(dd, resp) ==
  IF resp.err # "none"
    THEN IF resp.err = "resource.not_found"
           THEN [exists |-> FALSE, err |-> FALSE]
         ELSE [exists |-> FALSE, err |-> TRUE]
  ELSE [exists |-> TRUE, err |-> FALSE]

resourceGlbServiceCreateRefusesExisting(dd) ==
  IF remote.exists
    THEN [d |-> dd, err |-> TRUE, sent |-> remote]
  ELSE [d |-> SetId(writeBack(GlbService, dd), Get(dd, "name")),
        err |-> FALSE,
        sent |-> buildObject(GlbService, NewObject(GlbService), dd)]

\* Create builds a new object; the result of Apply is not looked at
resourceGlbServiceCreate(dd) ==
  [d |-> SetId(writeBack(GlbService, dd), Get(dd, "name")),
   err |-> FALSE,
   sent |-> buildObject(GlbService, NewObject(GlbService), dd)]

updateNamedResolvesBeforeGet(k, dd, resp) ==
  IF resp.err # "none"
    THEN [d |-> writeBack(k, dd), err |-> TRUE, sent |-> NoObject]
  ELSE [d |-> SetId(writeBack(k, dd), Get(dd, "name")),
        err |-> FALSE,
        sent |-> buildObject(k, resp.object, dd)]

updateNamedJsonErrorReturned(k, dd, resp) ==
  IF resp.err # "none"
    THEN [d |-> dd, err |-> TRUE, sent |-> NoObject]
  ELSE IF \E t \in Tables(k) :
            /\ GetOkJson(dd, JsonKey(t))
            /\ Unmarshal(Get(dd, JsonKey(t)), << >>).err
    THEN [d |-> dd, err |-> TRUE, sent |-> NoObject]
  ELSE [d |-> SetId(writeBack(k, dd), Get(dd, "name")),
        err |-> FALSE,
        sent |-> buildObject(k, resp.object, dd)]

updateNamedCreatesMissing(k, dd, resp) ==
  IF resp.err = "other"
    THEN [d |-> dd, err |-> TRUE, sent |-> NoObject]
  ELSE [d |-> SetId(writeBack(k, dd), Get(dd, "name")),
        err |-> FALSE,
        sent |-> buildObject(k, IF resp.err = "none" THEN resp.object
                                ELSE NewObject(k), dd)]

\* Update of a named resource: a failed get (not-found included) is
\* returned; otherwise as Create, on the fetched object
updateNamed(k, dd, resp) ==
  IF resp.err # "none"
    THEN [d |-> dd, err |-> TRUE, sent |-> NoObject]
  ELSE [d |-> SetId(writeBack(k, dd), Get(dd, "name")),
        err |-> FALSE,
        sent |-> buildObject(k, resp.object, dd)]

resourceGlbServiceUpdate(dd, resp) == updateNamed(GlbService, dd, resp)

resourceTrafficManagerUpdate(dd, resp) == updateNamed(TrafficManager, dd, resp)

resourceGlbServiceDeleteAlwaysClearsId(dd, delErr) ==
  [d |-> SetId(dd, ""), err |-> delErr # "none"]

\* the remote delete: its error, if any, is returned and the id kept
resourceGlbServiceDelete(dd, delErr) ==
  IF delErr # "none" THEN [d |-> dd, err |-> TRUE]
  ELSE [d |-> SetId(dd, ""), err |-> FALSE]

resourceTrafficManagerDelete(dd) == [d |-> SetId(dd, ""), err |-> FALSE]

resourceSecurityRead(dd, resp) ==
  IF resp.err # "none" THEN [d |-> dd, err |-> TRUE]
  ELSE [d |-> SetId(populate(Security, dd, resp.object), "security"),
        err |-> FALSE]

resourceSecurityUpdate(dd, resp) ==
  IF resp.err # "none"
    THEN [d |-> dd, err |-> TRUE, sent |-> NoObject]
  ELSE [d |-> SetId(writeBack(Security, dd), "security"),
        err |-> FALSE,
        sent |-> buildObject(Security, resp.object, dd)]

resourceSecurityDelete(dd) == [d |-> SetId(dd, ""), err |-> FALSE]


(***************************************************************************)
(* Statistics data sources                                                 *)
(***************************************************************************)
\* the counters a statistics data source copies
StatKeys(k) ==
  IF k = EventStatistics THEN {"matched"}
  ELSE IF k = ListenIpStatistics
    THEN {"bytes_in", "bytes_out", "current_conn", "max_conn",
          "total_requests"}
  ELSE IF k = UserCounters64 THEN {"counter"}
  ELSE {}

\* the d.Set calls of a statistics Read
populateStatistics(k, dd, object) ==
  [dd EXCEPT !.attrs =
     [key \in DOMAIN dd.attrs |->
        IF key \in StatKeys(k) THEN object.statistics ELSE dd.attrs[key]]]

readStatistics(k, dd, resp) ==
  IF resp.err # "none"
    THEN IF resp.err = "resource.not_found"
           THEN [d |-> SetId(dd, ""), err |-> FALSE]
         ELSE [d |-> dd, err |-> TRUE]
  ELSE [d |-> SetId(populateStatistics(k, dd, resp.object), Get(dd, "name")),
        err |-> FALSE]

dataSourceEventStatisticsRead(dd, resp) ==
  readStatistics(EventStatistics, dd, resp)

dataSourceListenIpStatisticsRead(dd, resp) ==
  readStatistics(ListenIpStatistics, dd, resp)

\* the singleton has no not-found case: every error is returned
dataSourceExtrasUserCounters64StatisticsRead(dd, resp) ==
  IF resp.err # "none" THEN [d |-> dd, err |-> TRUE]
  ELSE [d |-> SetId(populateStatistics(UserCounters64, dd, resp.object),
                    "user_counters_64"),
        err |-> FALSE]

(***************************************************************************)
(* Traffic manager list data source.  Names and filter strings are         *)
(* sequences of characters.                                                *)
(***************************************************************************)
\* strings.HasPrefix
HasPrefix(s, p) == Len(p) <= Len(s) /\ SubSeq(s, 1, Len(p)) = p

\* strings.HasSuffix
HasSuffix(s, p) ==
  Len(p) <= Len(s) /\ SubSeq(s, Len(s) - Len(p) + 1, Len(s)) = p

\* strings.Contains
Contains(s, p) ==
  \E i \in 0..(Len(s) - Len(p)) : SubSeq(s, i + 1, i + Len(p)) = p

\* regexp.Compile succeeds: the patterns considered are literals, "." and
\* an unclosed "("
Compiles(p) == \A i \in 1..Len(p) : p[i] # "("

\* (*Regexp).MatchString: an unanchored match of literals and "."
MatchString(p, s) ==
  \E i \in 0..(Len(s) - Len(p)) :
    \A j \in 1..Len(p) : p[j] = "." \/ p[j] = s[i + j]

\* the names of the list that start with p, in their order
getStringListStartingWith(list, p) ==
  SelectSeq(list, LAMBDA s : HasPrefix(s, p))

getStringListEndingWith(list, p) ==
  SelectSeq(list, LAMBDA s : HasSuffix(s, p))

getStringListContaining(list, p) ==
  SelectSeq(list, LAMBDA s : Contains(s, p))

\* the names matching the pattern, or an error if it does not compile
getStringListMatchingRegex(list, p) ==
  IF Compiles(p)
    THEN [list |-> SelectSeq(list, LAMBDA s : MatchString(p, s)),
          err |-> FALSE]
  ELSE [list |-> << >>, err |-> TRUE]

\* the first three narrowing passes, each on the output of the one before
narrowNotChained(dd, objectList) ==
  LET l1 == IF GetOkSeq(dd, "starts_with")
              THEN getStringListStartingWith(objectList, Get(dd, "starts_with"))
            ELSE objectList
      l2 == IF GetOkSeq(dd, "ends_with")
              THEN getStringListEndingWith(l1, Get(dd, "ends_with"))
            ELSE l1
  IN IF GetOkSeq(dd, "contains")
       THEN getStringListContaining(objectList, Get(dd, "contains"))
     ELSE l2

narrowSkipsEndsWith(dd, objectList) ==
  LET l1 == IF GetOkSeq(dd, "starts_with")
              THEN getStringListStartingWith(objectList, Get(dd, "starts_with"))
            ELSE objectList
  IN IF GetOkSeq(dd, "contains")
       THEN getStringListContaining(l1, Get(dd, "contains"))
     ELSE l1

narrow(dd, objectList) ==
  LET l1 == IF GetOkSeq(dd, "starts_with")
              THEN getStringListStartingWith(objectList, Get(dd, "starts_with"))
            ELSE objectList
      l2 == IF GetOkSeq(dd, "ends_with")
              THEN getStringListEndingWith(l1, Get(dd, "ends_with"))
            ELSE l1
  IN IF GetOkSeq(dd, "contains")
       THEN getStringListContaining(l2, Get(dd, "contains"))
     ELSE l2

dataSourceTrafficManagerListReadKeepsId(dd, resp) ==
  IF resp.err # "none" THEN [d |-> SetId(dd, ""), err |-> TRUE]
  ELSE LET l3 == narrow(dd, resp.object.names)
           rx == IF GetOkSeq(dd, "regex_match")
                   THEN getStringListMatchingRegex(l3, Get(dd, "regex_match"))
                 ELSE [list |-> l3, err |-> FALSE]
       IN IF rx.err THEN [d |-> dd, err |-> TRUE]
          ELSE [d |-> SetId(Set(dd, "object_list", rx.list),
                            "traffic_manager_list"),
                err |-> FALSE]

dataSourceTrafficManagerListRead(dd, resp) ==
  IF resp.err # "none" THEN [d |-> SetId(dd, ""), err |-> TRUE]
  ELSE LET l3 == narrow(dd, resp.object.names)
           rx == IF GetOkSeq(dd, "regex_match")
                   THEN getStringListMatchingRegex(l3, Get(dd, "regex_match"))
                 ELSE [list |-> l3, err |-> FALSE]
       IN IF rx.err THEN [d |-> SetId(dd, ""), err |-> TRUE]
          ELSE [d |-> SetId(Set(dd, "object_list", rx.list),
                            "traffic_manager_list"),
                err |-> FALSE]


(***************************************************************************)
(* Inputs: configurations and appliance states                             *)
(***************************************************************************)
FilterKeys == {"starts_with", "ends_with", "contains", "regex_match"}

\* the attributes the schema of each kind declares
Attributes(k) ==
  (IF k \in NamedKinds THEN {"name"} ELSE {})
    \cup Tables(k) \cup JsonAttributes(k) \cup Lists(k) \cup StatKeys(k)
    \cup (IF k \in Resources THEN {"scalars"} ELSE {})
    \cup (IF k = TrafficManagerList THEN FilterKeys \cup {"object_list"}
          ELSE {})

\* a configuration that sets nothing but the name
BaseConfig(k, n) ==
  [key \in Attributes(k) |->
     IF key = "name" THEN n
     ELSE IF key \in Tables(k) THEN {}
     ELSE IF key \in JsonAttributes(k) THEN EmptyString
     ELSE IF key = "scalars" THEN "s0"
     ELSE IF key \in StatKeys(k) THEN 0
     ELSE << >>]

\* the tables whose JSON shadow the user can set
ShadowedTables(k) == {t \in Tables(k) : JsonKey(t) \in JsonAttributes(k)}

StartsWithValues == {<< >>, <<"a">>}
EndsWithValues == {<< >>, <<"a">>}
ContainsValues == {<< >>, <<"z">>}
RegexValues == {<< >>, <<".", "a">>, <<"(">>}

\* the attribute a configuration or an appliance state may set away from
\* the base: a table (with its shadow), a list, or the scalars
VariedAttributes(k) ==
  IF k \in Resources THEN Tables(k) \cup Lists(k) \cup {"scalars"}
  ELSE {"filters"}

\* the configurations considered that vary attribute a: any structured
\* list with any shadow text, any list, any scalars, any filters
Configs(k, n, a) ==
  LET base == BaseConfig(k, n)
  IN IF a \in ShadowedTables(k)
       THEN {[base EXCEPT ![a] = L, ![JsonKey(a)] = J] :
               L \in SUBSET Entries, J \in JsonTexts}
     ELSE IF a \in Tables(k)
       THEN {[base EXCEPT ![a] = L] : L \in SUBSET Entries}
     ELSE IF a \in Lists(k)
       THEN {[base EXCEPT ![a] = v] : v \in ListValues}
     ELSE IF k \in Resources
       THEN {[base EXCEPT !["scalars"] = v] : v \in ScalarValues}
     ELSE IF k = TrafficManagerList
       THEN {[base EXCEPT !["starts_with"] = f1, !["ends_with"] = f2,
                          !["contains"] = f3, !["regex_match"] = f4] :
               f1 \in StartsWithValues, f2 \in EndsWithValues,
               f3 \in ContainsValues, f4 \in RegexValues}
     ELSE {base}

TrafficManagerNames == {<<"a">>, <<"a", "z">>, <<"z", "a">>}

StatisticValues == {1, 2}

\* the appliance states considered that vary attribute a: the object is
\* missing (named kinds), or its field a has any value
Remotes(k, a) ==
  (IF k \in NamedKinds THEN {NotFound} ELSE {})
    \cup (IF a \in Tables(k)
            THEN {[NewObject(k) EXCEPT !.tables[a] = rows] :
                    rows \in TableValues}
          ELSE IF a \in Lists(k)
            THEN {[NewObject(k) EXCEPT !.lists[a] = v] : v \in ListValues}
          ELSE IF k \in Resources
            THEN {[NewObject(k) EXCEPT !.scalars = v] : v \in ScalarValues}
          ELSE IF k = TrafficManagerList
            THEN {[exists |-> TRUE, names |-> l] :
                    l \in BoundedSeq(TrafficManagerNames, MaxList)}
          ELSE {[exists |-> TRUE, statistics |-> v] : v \in StatisticValues})

(***************************************************************************)
(* State machine                                                           *)
(***************************************************************************)
NoCall ==
  [op |-> "none", err |-> FALSE, get |-> "n/a", apply |-> "n/a",
   delete |-> "n/a", exists |-> FALSE, sent |-> NoObject,
   d0 |-> [id |-> ""], remote0 |-> NoObject]

\* the record of a handler call
Call(op, err, get, apply, delete, exists, sent) ==
  [op |-> op, err |-> err, get |-> get, apply |-> apply, delete |-> delete,
   exists |-> exists, sent |-> sent, d0 |-> d, remote0 |-> remote]

Init ==
  /\ kind \in Kinds
  /\ \E n \in ObjectNames, a \in VariedAttributes(kind) :
       /\ d \in {[id |-> "", attrs |-> c] : c \in Configs(kind, n, a)}
       /\ remote \in Remotes(kind, a)
  /\ last = NoCall

\* somebody else deletes the object on the appliance, or puts a new one
RemoteChange ==
  /\ remote' \in (IF kind \in NamedKinds THEN {NotFound} ELSE {})
                   \cup (IF kind \in Resources THEN {NewObject(kind)} ELSE {})
  /\ remote' # remote
  /\ last' = NoCall
  /\ UNCHANGED <<kind, d>>

\* the data source is planned again with other filter arguments
ConfigureFilters ==
  /\ kind = TrafficManagerList
  /\ \E c \in Configs(kind, "", "filters") :
       d' = [d EXCEPT !.attrs = [c EXCEPT !["object_list"] =
                                            d.attrs["object_list"]]]
  /\ d' # d
  /\ last' = NoCall
  /\ UNCHANGED <<kind, remote>>

\* schema.ImportStatePassthrough on a resource not yet in the state: the
\* ResourceData gets the id the user gave and no attribute
Import ==
  /\ kind \in Resources
  /\ d.id = ""
  /\ \E n \in ObjectNames :
       d' = [id |-> n, attrs |-> BaseConfig(kind, "")]
  /\ last' = Call("ImportStatePassthrough", FALSE, "n/a", "n/a", "n/a", FALSE,
                  NoObject)
  /\ UNCHANGED <<kind, remote>>

\* the step of a handler that only reads the remote object: resp is the
\* response of its get, r what the handler returned
ReadStep(op, resp, r) ==
  /\ d' = r.d
  /\ last' = Call(op, r.err, resp.err, "n/a", "n/a", FALSE, NoObject)
  /\ UNCHANGED <<kind, remote>>

\* the step of a handler that gets the object, changes it and calls Apply,
\* whose outcome it does not look at
UpdateStep(op, resp, r, applyFault) ==
  /\ d' = r.d
  /\ remote' = IF r.sent.exists /\ ~applyFault THEN r.sent ELSE remote
  /\ last' = Call(op, r.err, resp.err,
                  IF ~r.sent.exists THEN "n/a"
                  ELSE IF applyFault THEN "failed" ELSE "ok",
                  "n/a", FALSE, r.sent)
  /\ UNCHANGED kind

GlbServiceRead ==
  /\ kind = GlbService
  /\ \E fault \in BOOLEAN :
       ReadStep("resourceGlbServiceRead", GetResponse(Lookup(remote, Get(d, "name")), fault),
                resourceGlbServiceRead(d, GetResponse(Lookup(remote, Get(d, "name")), fault)))

GlbServiceExists ==
  /\ kind = GlbService
  /\ \E fault \in BOOLEAN :
       LET resp == GetResponse(Lookup(remote, Get(d, "name")), fault)
           r == resourceGlbServiceExists(d, resp)
       IN last' = Call("resourceGlbServiceExists", r.err, resp.err, "n/a",
                       "n/a", r.exists, NoObject)
  /\ UNCHANGED <<kind, d, remote>>

\* name is Required: Create runs on a configuration, never on a
\* ResourceData that was only imported
GlbServiceCreate ==
  /\ kind = GlbService
  /\ Get(d, "name") # ""
  /\ \E applyFault \in BOOLEAN :
       LET r == resourceGlbServiceCreate(d)
       IN /\ d' = r.d
          /\ remote' = IF applyFault THEN remote ELSE r.sent
          /\ last' = Call("resourceGlbServiceCreate", r.err, "n/a",
                          IF applyFault THEN "failed" ELSE "ok", "n/a", FALSE,
                          r.sent)
  /\ UNCHANGED kind

GlbServiceUpdate ==
  /\ kind = GlbService
  /\ \E fault \in BOOLEAN, applyFault \in BOOLEAN :
       UpdateStep("resourceGlbServiceUpdate", GetResponse(Lookup(remote, Get(d, "name")), fault),
                  resourceGlbServiceUpdate(d, GetResponse(Lookup(remote, Get(d, "name")), fault)), applyFault)

GlbServiceDelete ==
  /\ kind = GlbService
  /\ \E fault \in BOOLEAN :
       LET delErr == IF fault THEN "other"
                     ELSE IF ~Lookup(remote, Get(d, "name")).exists
                       THEN "resource.not_found"
                     ELSE "none"
           r == resourceGlbServiceDelete(d, delErr)
       IN /\ d' = r.d
          /\ remote' = IF delErr = "none" THEN NotFound ELSE remote
          /\ last' = Call("resourceGlbServiceDelete", r.err, "n/a", "n/a",
                          delErr, FALSE, NoObject)
  /\ UNCHANGED kind

TrafficManagerRead ==
  /\ kind = TrafficManager
  /\ \E fault \in BOOLEAN :
       ReadStep("resourceTrafficManagerRead", GetResponse(Lookup(remote, Get(d, "name")), fault),
                resourceTrafficManagerRead(d, GetResponse(Lookup(remote, Get(d, "name")), fault)))

\* Create and Update of the schema are the same function
TrafficManagerUpdate ==
  /\ kind = TrafficManager
  /\ \E fault \in BOOLEAN, applyFault \in BOOLEAN :
       UpdateStep("resourceTrafficManagerUpdate", GetResponse(Lookup(remote, Get(d, "name")), fault),
                  resourceTrafficManagerUpdate(d, GetResponse(Lookup(remote, Get(d, "name")), fault)), applyFault)

TrafficManagerDeleteRemovesObject ==
  /\ kind = TrafficManager
  /\ d' = resourceTrafficManagerDelete(d).d
  /\ remote' = NotFound
  /\ last' = Call("resourceTrafficManagerDelete", FALSE, "n/a", "n/a", "n/a",
                  FALSE, NoObject)
  /\ UNCHANGED kind

TrafficManagerDelete ==
  /\ kind = TrafficManager
  /\ d' = resourceTrafficManagerDelete(d).d
  /\ last' = Call("resourceTrafficManagerDelete", FALSE, "n/a", "n/a", "n/a",
                  FALSE, NoObject)
  /\ UNCHANGED <<kind, remote>>

SecurityRead ==
  /\ kind = Security
  /\ \E fault \in BOOLEAN :
       ReadStep("resourceSecurityRead", GetResponse(remote, fault),
                resourceSecurityRead(d, GetResponse(remote, fault)))

SecurityUpdate ==
  /\ kind = Security
  /\ \E fault \in BOOLEAN, applyFault \in BOOLEAN :
       UpdateStep("resourceSecurityUpdate", GetResponse(remote, fault),
                  resourceSecurityUpdate(d, GetResponse(remote, fault)), applyFault)

SecurityDelete ==
  /\ kind = Security
  /\ d' = resourceSecurityDelete(d).d
  /\ last' = Call("resourceSecurityDelete", FALSE, "n/a", "n/a", "n/a", FALSE,
                  NoObject)
  /\ UNCHANGED <<kind, remote>>

EventStatisticsRead ==
  /\ kind = EventStatistics
  /\ \E fault \in BOOLEAN :
       ReadStep("dataSourceEventStatisticsRead", GetResponse(remote, fault),
                dataSourceEventStatisticsRead(d, GetResponse(remote, fault)))

ListenIpStatisticsRead ==
  /\ kind = ListenIpStatistics
  /\ \E fault \in BOOLEAN :
       ReadStep("dataSourceListenIpStatisticsRead", GetResponse(remote, fault),
                dataSourceListenIpStatisticsRead(d, GetResponse(remote, fault)))

ExtrasUserCounters64StatisticsRead ==
  /\ kind = UserCounters64
  /\ \E fault \in BOOLEAN :
       ReadStep("dataSourceExtrasUserCounters64StatisticsRead", GetResponse(remote, fault),
                dataSourceExtrasUserCounters64StatisticsRead(d, GetResponse(remote, fault)))

TrafficManagerListRead ==
  /\ kind = TrafficManagerList
  /\ \E fault \in BOOLEAN :
       ReadStep("dataSourceTrafficManagerListRead", GetResponse(remote, fault),
                dataSourceTrafficManagerListRead(d, GetResponse(remote, fault)))

Next ==
  \/ RemoteChange
  \/ ConfigureFilters
  \/ Import
  \/ GlbServiceRead
  \/ GlbServiceExists
  \/ GlbServiceCreate
  \/ GlbServiceUpdate
  \/ GlbServiceDelete
  \/ TrafficManagerRead
  \/ TrafficManagerUpdate
  \/ TrafficManagerDelete
  \/ SecurityRead
  \/ SecurityUpdate
  \/ SecurityDelete
  \/ EventStatisticsRead
  \/ ListenIpStatisticsRead
  \/ ExtrasUserCounters64StatisticsRead
  \/ TrafficManagerListRead

Spec == Init /\ [][Next]_vars


(***************************************************************************)
(* Properties                                                              *)
(***************************************************************************)
CreateUpdateOps ==
  {"resourceGlbServiceCreate", "resourceGlbServiceUpdate",
   "resourceTrafficManagerUpdate"}

UpdateOps == {"resourceGlbServiceUpdate", "resourceTrafficManagerUpdate"}

NamedReadOps ==
  {"resourceGlbServiceRead", "resourceTrafficManagerRead",
   "dataSourceEventStatisticsRead", "dataSourceListenIpStatisticsRead"}

\* the handler that ran last built an object and handed it to Apply
Sent(ops) == last.op \in ops /\ last.sent.exists

\* L_json of table t was set (declared and non-empty) when the handler began
JsonSet(t) ==
  /\ JsonKey(t) \in DOMAIN last.d0.attrs
  /\ last.d0.attrs[JsonKey(t)].kind # "empty"

\* C1: in GLB-service Create/Update and traffic-manager Update, for every
\* table with a shadow attribute, a shadow holding a JSON array of rows
\* makes the table sent to the appliance equal to those rows, whatever the
\* structured list holds.
C1_JsonShadowWins ==
  Sent(CreateUpdateOps) =>
    \A t \in ShadowedTables(kind) :
      last.d0.attrs[JsonKey(t)].kind = "array" =>
        last.sent.tables[t] = last.d0.attrs[JsonKey(t)].elems

C1_Witness ==
  /\ Sent(CreateUpdateOps)
  /\ \E t \in ShadowedTables(kind) :
       /\ last.d0.attrs[JsonKey(t)].kind = "array"
       /\ last.d0.attrs[JsonKey(t)].elems # << >>
       /\ last.d0.attrs[t] # {}
       /\ expandTable(SetList(last.d0.attrs[t])) # last.sent.tables[t]

\* C2: in GLB-service Create/Update and traffic-manager Update, for every
\* table whose shadow is absent and whose structured list has entries, the
\* table sent has exactly one row per entry, with the entry's field values.
C2_ListUsedWhenNoJson ==
  Sent(CreateUpdateOps) =>
    \A t \in Tables(kind) :
      (~JsonSet(t) /\ last.d0.attrs[t] # {}) =>
        /\ Len(last.sent.tables[t]) = Cardinality(last.d0.attrs[t])
        /\ Range(last.sent.tables[t]) = last.d0.attrs[t]

C2_Witness ==
  /\ Sent(CreateUpdateOps)
  /\ \E t \in Tables(kind) :
       /\ ~JsonSet(t)
       /\ Cardinality(last.d0.attrs[t]) = 2
       /\ Len(last.sent.tables[t]) = 2

\* C3: in Update, a table whose shadow and structured list are both absent
\* is sent empty, whatever rows the fetched remote object held.
C3_AbsentResetsTable ==
  Sent(UpdateOps) =>
    \A t \in Tables(kind) :
      (~JsonSet(t) /\ last.d0.attrs[t] = {}) => last.sent.tables[t] = << >>

C3_Witness ==
  /\ Sent(UpdateOps)
  /\ \E t \in Tables(kind) :
       /\ ~JsonSet(t)
       /\ last.d0.attrs[t] = {}
       /\ last.remote0.tables[t] # << >>
       /\ last.sent.tables[t] = << >>

\* C4: a Read of a named object that the appliance reports as not found
\* leaves the local id empty and returns no error.
C4_NotFoundClearsId ==
  (last.op \in NamedReadOps /\ last.get = "resource.not_found") =>
    (d.id = "" /\ ~last.err)

C4_Witness ==
  /\ last.op \in NamedReadOps
  /\ last.get = "resource.not_found"
  /\ last.d0.id # ""
  /\ d.id = ""

\* C5: no handler returns success after one of its remote calls (get, list,
\* delete, Apply) failed with an error other than not-found.
C5_RemoteFailureSurfaced ==
  (last.get = "other" \/ last.delete = "other" \/ last.apply = "failed") =>
    last.err


ListReadOk ==
  last.op = "dataSourceTrafficManagerListRead" /\ ~last.err

\* the narrowing passes of the list data source, each skipped when its
\* filter is the empty string
PassStartsWith(list, f) ==
  IF f = << >> THEN list ELSE SelectSeq(list, LAMBDA s : HasPrefix(s, f))

PassEndsWith(list, f) ==
  IF f = << >> THEN list ELSE SelectSeq(list, LAMBDA s : HasSuffix(s, f))

PassContains(list, f) ==
  IF f = << >> THEN list ELSE SelectSeq(list, LAMBDA s : Contains(s, f))

PassRegexMatch(list, f) ==
  IF f = << >> THEN list ELSE SelectSeq(list, LAMBDA s : MatchString(f, s))

\* C6: the list data source applies the supplied filters as successive
\* narrowing passes in the order starts_with, ends_with, contains,
\* regex_match, each on the output of the pass before; with starts_with and
\* contains alone the result is contains(starts_with(input)).
C6_FiltersChainInOrder ==
  ListReadOk =>
    LET f == last.d0.attrs
        l1 == PassStartsWith(last.remote0.names, f["starts_with"])
        l2 == PassEndsWith(l1, f["ends_with"])
        l3 == PassContains(l2, f["contains"])
        l4 == PassRegexMatch(l3, f["regex_match"])
    IN /\ d.attrs["object_list"] = l4
       /\ (f["ends_with"] = << >> /\ f["regex_match"] = << >>
             /\ f["starts_with"] # << >> /\ f["contains"] # << >>) =>
            d.attrs["object_list"] =
              getStringListContaining(
                getStringListStartingWith(last.remote0.names,
                                          f["starts_with"]),
                f["contains"])

C6_Witness ==
  /\ ListReadOk
  /\ last.d0.attrs["starts_with"] = <<"a">>
  /\ last.d0.attrs["contains"] = <<"z">>
  /\ last.d0.attrs["ends_with"] = << >>
  /\ last.d0.attrs["regex_match"] = << >>
  /\ last.remote0.names = << <<"z", "a">>, <<"a", "z">> >>
  /\ d.attrs["object_list"] = << <<"a", "z">> >>

\* a name satisfies every filter that is supplied (non-empty)
SatisfiesAll(s, f) ==
  /\ f["starts_with"] # << >> => HasPrefix(s, f["starts_with"])
  /\ f["ends_with"] # << >> => HasSuffix(s, f["ends_with"])
  /\ f["contains"] # << >> => Contains(s, f["contains"])
  /\ f["regex_match"] # << >> => MatchString(f["regex_match"], s)

\* C7: after a successful Read of the list data source, object_list is the
\* subsequence of the remote list holding exactly the names that satisfy
\* every supplied filter; with no filter it is the whole remote list.
C7_ObjectListIsFilteredSubsequence ==
  ListReadOk =>
    /\ d.attrs["object_list"] =
         SelectSeq(last.remote0.names,
                   LAMBDA s : SatisfiesAll(s, last.d0.attrs))
    /\ (\A k \in FilterKeys : last.d0.attrs[k] = << >>) =>
         d.attrs["object_list"] = last.remote0.names

C7_Witness ==
  /\ ListReadOk
  /\ last.d0.attrs["ends_with"] = <<"a">>
  /\ Len(last.remote0.names) = 2
  /\ Len(d.attrs["object_list"]) = 1

\* C8: a Read of the list data source that returns an error (the list call
\* failed or regex_match did not compile) leaves the id empty and
\* object_list unwritten; the id becomes "traffic_manager_list" only in a
\* Read that returned no error.
C8_ListReadErrorClearsId ==
  [][/\ (last'.op = "dataSourceTrafficManagerListRead" /\ last'.err) =>
          /\ d'.id = ""
          /\ d'.attrs["object_list"] = d.attrs["object_list"]
     /\ (d'.id = "traffic_manager_list" /\ d.id # "traffic_manager_list") =>
          (last'.op = "dataSourceTrafficManagerListRead" /\ ~last'.err)]_vars

C8_Witness ==
  /\ last.op = "dataSourceTrafficManagerListRead"
  /\ last.err
  /\ last.get = "none"
  /\ last.d0.id = "traffic_manager_list"
  /\ last.d0.attrs["object_list"] # << >>
  /\ d.id = ""

\* C9: no handler call sets the local id to anything but the empty string,
\* the name attribute (named resource or data source) or the fixed string
\* of a singleton; so from a new ResourceData, after any sequence of Create,
\* Read, Update and Delete calls, the id is empty or that value.  (The
\* importer is not one of these calls: it stores the id the user gave.)
C9_IdIsEmptyOrName ==
  [][\/ last'.op = "ImportStatePassthrough"
     \/ d'.id = d.id
     \/ d'.id \in {"",
                   IF kind \in NamedKinds THEN d'.attrs["name"]
                   ELSE IF kind = Security THEN "security"
                   ELSE IF kind = UserCounters64 THEN "user_counters_64"
                   ELSE "traffic_manager_list"}]_vars

C9_Witness ==
  /\ kind = TrafficManager
  /\ last.op = "resourceTrafficManagerRead"
  /\ d.id = d.attrs["name"]
  /\ d.id # ""

\* C10: every table attribute of every resource has a <name>_json attribute
\* that the user can set and that then takes precedence in Update: after a
\* Create/Update, each table's shadow is an attribute of the ResourceData,
\* and a shadow holding a JSON array is the table that was sent.
C10_EveryTableHasJsonShadow ==
  Sent(CreateUpdateOps) =>
    \A t \in Tables(kind) :
      /\ JsonKey(t) \in DOMAIN last.d0.attrs
      /\ (JsonSet(t) /\ last.d0.attrs[JsonKey(t)].kind = "array") =>
           last.sent.tables[t] = last.d0.attrs[JsonKey(t)].elems

AllUpdateOps == CreateUpdateOps \cup {"resourceSecurityUpdate"}

\* the table a JSON text stands for: its rows, or no rows when the text is
\* empty; a text that is not an array of rows stands for no table
Denotes(text, rows) ==
  \/ text.kind = "array" /\ text.elems = rows
  \/ text.kind = "empty" /\ rows = << >>

\* C11: after a Create/Update that resolved its tables, for every table
\* with a shadow attribute the structured list L and the shadow L_json in
\* local state both denote the table that was sent, whichever branch
\* (well-formed JSON used, L used, neither set) resolved it.
C11_BothWrittenBack ==
  Sent(CreateUpdateOps) =>
    \A t \in ShadowedTables(kind) :
      last.d0.attrs[JsonKey(t)].kind \in {"array", "empty"} =>
        /\ expandTable(SetList(d.attrs[t])) = last.sent.tables[t]
        /\ Denotes(d.attrs[JsonKey(t)], last.sent.tables[t])

\* L_json of table t held a text that does not parse as rows when the
\* handler began
JsonMalformed(t) ==
  /\ JsonSet(t)
  /\ Unmarshal(last.d0.attrs[JsonKey(t)], << >>).err

\* C12: a Create/Update whose initial get (if any) succeeded and that found
\* a shadow attribute set to a text that does not parse as the table's rows
\* raises no error: it hands the object to Apply, sets the id to the name
\* and returns success.
C12_MalformedJsonIsSilent ==
  (/\ last.op \in CreateUpdateOps
   /\ last.get \in {"n/a", "none"}
   /\ \E t \in ShadowedTables(kind) : JsonMalformed(t)) =>
    /\ ~last.err
    /\ last.sent.exists
    /\ last.apply \in {"ok", "failed"}
    /\ d.id = last.d0.attrs["name"]

C12_Witness ==
  /\ last.op = "resourceTrafficManagerUpdate"
  /\ JsonMalformed("trafficip")
  /\ last.d0.attrs["trafficip_json"].kind = "syntax"
  /\ last.apply = "ok"
  /\ ~last.err
  /\ d.id = "web"

\* C13: the resolution policy falls through: when a Create/Update finds the
\* shadow attribute set to a text that does not parse and the structured
\* list L non-empty, the table it sends is the conversion of L.
C13_MalformedJsonFallsThroughToList ==
  Sent(CreateUpdateOps) =>
    \A t \in ShadowedTables(kind) :
      (JsonMalformed(t) /\ last.d0.attrs[t] # {}) =>
        last.sent.tables[t] = expandTable(SetList(last.d0.attrs[t]))

\* the last handler was an Update or Delete of a named object that the
\* appliance no longer has
MissingOnUpdateOrDelete ==
  \/ last.op \in UpdateOps /\ last.get = "resource.not_found"
  \/ last.op = "resourceGlbServiceDelete" /\ last.delete = "resource.not_found"
  \/ last.op = "resourceTrafficManagerDelete" /\ ~last.remote0.exists

\* C14: not-found is idempotent in every operation, not only in Read: an
\* Update or a Delete of a named object that no longer exists on the
\* appliance clears the local id and returns no error.
C14_NotFoundIdempotentEverywhere ==
  MissingOnUpdateOrDelete => (~last.err /\ d.id = "")

ResourceReadOps ==
  {"resourceGlbServiceRead", "resourceTrafficManagerRead",
   "resourceSecurityRead"}

\* the last handler was a Read that returned success on an existing object
ReadSucceeded(ops) == last.op \in ops /\ last.get = "none" /\ ~last.err

\* a local table entry shows a remote row: equal fields, a nil field of the
\* row being read locally as the zero value of its type
Shows(e, row) ==
  /\ e.name = (IF row.name = Nil THEN "" ELSE row.name)
  /\ e.value = (IF row.value = Nil THEN "" ELSE row.value)

\* C15: nothing is cached: after a successful Read of a resource, every
\* scalar, list and table attribute in local state has the value of the
\* remote object at that time (a table as the set of its rows), whatever
\* local state held before.
C15_ReadCopiesRemote ==
  ReadSucceeded(ResourceReadOps) =>
    /\ d.attrs["scalars"] = remote.scalars
    /\ \A l \in Lists(kind) : d.attrs[l] = remote.lists[l]
    /\ \A t \in Tables(kind) :
         /\ \A row \in Range(remote.tables[t]) :
              \E e \in d.attrs[t] : Shows(e, row)
         /\ \A e \in d.attrs[t] :
              \E row \in Range(remote.tables[t]) : Shows(e, row)

C15_Witness ==
  /\ ReadSucceeded({"resourceGlbServiceRead"})
  /\ last.d0.attrs["dnssec_keys"] = {EntryList[1], EntryList[2]}
  /\ remote.tables["dnssec_keys"] = <<[name |-> "b", value |-> Nil]>>
  /\ d.attrs["dnssec_keys"] = {[name |-> "b", value |-> ""]}

NonEmptyDefaultLists ==
  {"appliance_ntpservers", "fault_tolerance_ospfv2_neighbor_addrs",
   "rest_api_bind_ips", "snmp_allow"}

C17_ReadFillsListAndShadow ==
  ReadSucceeded({"resourceGlbServiceRead", "resourceTrafficManagerRead"}) =>
    \A t \in Tables(kind) :
      LET L == SetList(d.attrs[t])
          rows == remote.tables[t]
      IN /\ Len(L) = Len(rows)
         /\ \A i \in 1..Len(rows) : i <= Len(L) => Shows(L[i], rows[i])
         /\ JsonKey(t) \in DOMAIN d.attrs
         /\ JsonKey(t) \in DOMAIN d.attrs =>
              d.attrs[JsonKey(t)] = Marshal(flattenTable(rows))

\* C18: GLB-service Delete issues one remote delete.  If it succeeds the
\* remote object no longer exists, the local id is empty and no error is
\* returned; if it fails Delete returns an error, the local id is unchanged
\* and the appliance is as it was.
C18_GlbDeleteOutcome ==
  last.op = "resourceGlbServiceDelete" =>
    /\ last.delete \in {"none", "other", "resource.not_found"}
    /\ last.delete = "none" =>
         (~last.err /\ ~remote.exists /\ d.id = "" /\ last.remote0.exists)
    /\ last.delete # "none" =>
         (last.err /\ d = last.d0 /\ remote = last.remote0)

C18_Witness ==
  /\ last.op = "resourceGlbServiceDelete"
  /\ last.delete = "other"
  /\ last.remote0.exists
  /\ last.err
  /\ d.id = "web"
  /\ remote.exists

SingletonUpdateOps ==
  {"resourceTrafficManagerUpdate", "resourceSecurityUpdate"}

\* C19: Create of a traffic manager or of the security singleton is the
\* Update handler: it first gets the remote object, and when that get fails
\* (not-found included) it returns an error, hands nothing to Apply, leaves
\* the appliance as it was and leaves local state, the unset id included,
\* as it was.
C19_CreateIsUpdateAndNeedsObject ==
  (last.op \in SingletonUpdateOps /\ last.get # "none") =>
    /\ last.err
    /\ last.apply = "n/a"
    /\ ~last.sent.exists
    /\ remote = last.remote0
    /\ d = last.d0

C19_Witness ==
  /\ last.op = "resourceTrafficManagerUpdate"
  /\ last.get = "resource.not_found"
  /\ last.d0.id = ""
  /\ last.err
  /\ d.id = ""
  /\ ~remote.exists

\* C20: GLB-service Create does not look for an existing object: it makes
\* no get, builds a new object from the configuration and hands it to
\* Apply, returns success and leaves the local id equal to the name; when
\* Apply takes effect the remote object of that name has exactly the
\* resolved tables and lists of the configuration, whatever it held before.
C20_GlbCreateOverwrites ==
  last.op = "resourceGlbServiceCreate" =>
    /\ last.get = "n/a"
    /\ ~last.err
    /\ last.sent.exists
    /\ d.id = last.d0.attrs["name"]
    /\ last.apply = "ok" =>
         /\ remote.exists
         /\ \A t \in Tables(kind) :
              remote.tables[t] = resolveTable(last.d0, t)
         /\ \A l \in Lists(kind) :
              remote.lists[l] = last.d0.attrs[l]

C20_Witness ==
  /\ last.op = "resourceGlbServiceCreate"
  /\ last.remote0.exists
  /\ last.remote0.tables["dnssec_keys"] # << >>
  /\ last.d0.attrs["dnssec_keys"] = {}
  /\ last.d0.attrs["dnssec_keys_json"] = EmptyString
  /\ last.apply = "ok"
  /\ remote.tables["dnssec_keys"] = << >>
  /\ d.id = "web"

LocalDeleteOps == {"resourceTrafficManagerDelete", "resourceSecurityDelete"}

\* C21: Delete of a traffic manager or of the security singleton makes no
\* remote call: it clears the local id, returns no error, keeps the local
\* attributes and leaves the appliance exactly as it was.
C21_LocalDeleteLeavesRemote ==
  last.op \in LocalDeleteOps =>
    /\ last.get = "n/a" /\ last.apply = "n/a" /\ last.delete = "n/a"
    /\ ~last.sent.exists
    /\ ~last.err
    /\ d.id = ""
    /\ d.attrs = last.d0.attrs
    /\ remote = last.remote0

C21_Witness ==
  /\ last.op = "resourceTrafficManagerDelete"
  /\ last.d0.id = "web"
  /\ d.id = ""
  /\ remote.exists
  /\ remote.tables["appliance_hosts"] # << >>
  /\ remote = last.remote0

\* C22: GLB-service Exists answers true exactly when the get of the name
\* succeeds, (false, no error) when the appliance answers
\* resource.not_found, and (false, error) on any other failure of the get;
\* in each case local state and the remote object are as before.
C22_ExistsAnswersAndChangesNothing ==
  last.op = "resourceGlbServiceExists" =>
    /\ last.exists <=> (last.get = "none")
    /\ last.get = "none" => ~last.err
    /\ last.get = "resource.not_found" => (~last.exists /\ ~last.err)
    /\ last.get = "other" => (~last.exists /\ last.err)
    /\ last.get \in {"none", "resource.not_found", "other"}
    /\ d = last.d0
    /\ remote = last.remote0

C22_Witness ==
  /\ last.op = "resourceGlbServiceExists"
  /\ last.get = "resource.not_found"
  /\ ~last.exists
  /\ ~last.err
  /\ d.id = "web"

\* the last handler was a Read of a named resource whose ResourceData came
\* from the importer (id set, name unset), while the appliance held the
\* object of that id and the get met no other failure
ReadAfterImport ==
  /\ last.op \in {"resourceGlbServiceRead", "resourceTrafficManagerRead"}
  /\ last.d0.id \in ObjectNames
  /\ last.d0.attrs["name"] = ""
  /\ last.remote0.exists
  /\ last.get # "other"

\* C23: Import followed by Read works for named resources: after the
\* pass-through importer has set only the id to X, Read gets the remote
\* object named X, fills the attributes from it, returns no error and
\* leaves the id equal to X.
C23_ImportThenRead ==
  ReadAfterImport =>
    /\ last.get = "none"
    /\ ~last.err
    /\ d.id = last.d0.id
    /\ d.attrs["scalars"] = remote.scalars
    /\ \A l \in Lists(kind) : d.attrs[l] = remote.lists[l]

\* C24: Update followed by Read round-trips: when a GLB-service or
\* traffic-manager Update returned success and the next step is a Read of
\* the same resource that finds the object, the Read leaves the local lists
\* equal to the lists that Update sent, the local tables showing exactly
\* the rows that Update sent, and the id equal to the name.
C24_UpdateThenReadRoundTrips ==
  [][(/\ last.op \in UpdateOps
      /\ ~last.err
      /\ last'.op \in {"resourceGlbServiceRead", "resourceTrafficManagerRead"}
      /\ last'.get = "none") =>
       /\ d'.id = d'.attrs["name"]
       /\ \A l \in Lists(kind) : d'.attrs[l] = last.sent.lists[l]
       /\ \A t \in Tables(kind) :
            /\ \A row \in Range(last.sent.tables[t]) :
                 \E e \in d'.attrs[t] : Shows(e, row)
            /\ \A e \in d'.attrs[t] :
                 \E row \in Range(last.sent.tables[t]) : Shows(e, row)]_vars

\* C25: an Update (GLB service, traffic manager, security) whose initial
\* get fails returns an error before it resolves any attribute: nothing is
\* handed to Apply, the remote object is unchanged, and the local id and
\* every local attribute are as before the call.
C25_FailedGetChangesNothing ==
  (last.op \in AllUpdateOps \ {"resourceGlbServiceCreate"}
     /\ last.get # "none") =>
    /\ last.get \in {"other", "resource.not_found"}
    /\ last.err
    /\ last.apply = "n/a"
    /\ ~last.sent.exists
    /\ remote = last.remote0
    /\ d.id = last.d0.id
    /\ d.attrs = last.d0.attrs

C25_Witness ==
  /\ last.op = "resourceTrafficManagerUpdate"
  /\ last.get = "other"
  /\ last.remote0.exists
  /\ last.d0.id = "web"
  /\ last.d0.attrs["appliance_ntpservers"] = << >>
  /\ last.err
  /\ d = last.d0
  /\ remote = last.remote0

FailingReadOps ==
  ResourceReadOps \cup
    {"dataSourceEventStatisticsRead", "dataSourceListenIpStatisticsRead",
     "dataSourceExtrasUserCounters64StatisticsRead"}

\* C26: a resource or statistics Read whose get fails with an error other
\* than not-found returns an error and leaves the local id and every local
\* attribute unchanged; a transient failure never clears the id.
C26_ReadFailureKeepsLocalState ==
  (last.op \in FailingReadOps /\ last.get = "other") =>
    /\ last.err
    /\ d.id = last.d0.id
    /\ d.attrs = last.d0.attrs
    /\ remote = last.remote0

C26_Witness ==
  /\ last.op = "resourceGlbServiceRead"
  /\ last.get = "other"
  /\ last.remote0.exists
  /\ last.d0.id = "web"
  /\ last.err
  /\ d.id = "web"

PlainUpdateOps ==
  {"resourceGlbServiceUpdate", "resourceTrafficManagerUpdate",
   "resourceSecurityUpdate"}

=============================================================================
